---- MODULE Spec2Model ----
(***************************************************************************)
(* The conversation training bridge of src/middleware.py: the module-level *)
(* TrainingState, the /api/training/start and /api/training/stop handlers, *)
(* and the training_loop thread(s) they launch.                            *)
(*                                                                         *)
(* Granularity.  The handlers are `async def` and run on the one event     *)
(* loop thread, so no two handlers overlap; a handler that performs a      *)
(* blocking readiness probe (start_training) is split at the probe.  A     *)
(* training_loop thread is split at every blocking call (an agent call, a  *)
(* sleep, the file write) and between the append to conversation_log and   *)
(* the counter increments that follow it.                                  *)
(***************************************************************************)
EXTENDS Integers, Sequences, FiniteSets, TLC

VARIABLES
    config,          \* config.json: conversation_topics, max_conversation_history
    training_state,  \* the module-level TrainingState object
    threads,         \* every training_loop thread ever started, by start order
    req,             \* the request handler in progress on the event loop
    resp,            \* the last HTTP response returned by a handler
    artifacts,       \* the writes of session_*.json documents, in write order
    env,             \* bookkeeping: failures injected so far, Stop seen in this run
    scope,           \* what the environment may do in this behaviour (never changes)
    telegram,        \* src/telegram_server.py: the users table, the message in progress
    ports,           \* src/llm_server.py at import: the port search and its outcome
    launcher,        \* src/start_llm_trainer.py: the launcher and its child processes
    polling          \* src/telegram_server.py: polling_active and the polling threads

bridge_vars == <<config, training_state, threads, req, resp, artifacts, env, scope>>
host_vars == <<ports, launcher, polling>>
vars == <<config, training_state, threads, req, resp, artifacts, env, scope,
          telegram, host_vars>>

(***************************************************************************)
(* Bounds of the model.                                                    *)
(***************************************************************************)
MaxRestarts == 0        \* accepted Start requests after the first one (Spec)
MaxExchanges == 2       \* largest max_exchanges a Start request carries
MaxInterval == 2        \* largest topic_switch_interval a Start request carries
MaxFailures == 1        \* agent / disk failures the environment injects
MaxHorizon == 1         \* largest config['max_conversation_history']
MaxObserved == 11       \* exchange limit of the long single run (SpecData)
MaxTopics == 3          \* longest config['conversation_topics'] (SpecData)
MaxLimit == 2           \* largest limit a Log query carries (SpecQuery)
RecursionLimit == 5     \* frames the interpreter allows (SpecTelegram), scaled down
PortMax == 3            \* the largest port number bind() accepts (SpecPorts), scaled down
MaxPollers == 3         \* polling threads ever started (SpecPolling)
MaxUpdates == 2         \* Telegram updates a polling thread receives (SpecPolling)

(***************************************************************************)
(* Program constants.                                                      *)
(***************************************************************************)
RecentCap == 10         \* recent_llm_responses keeps the last 10 outputs
StallRun == 3           \* the last 3 outputs are compared
MaxLoopBreaks == 3      \* loop_break_attempts < 3
RetryTotal == 3         \* Retry(total=3) of the shared HTTP session

\* Spec accepts 1 + MaxRestarts Starts; SpecRace accepts one more, so that a
\* stopped loop thread and its successor can be alive together.
ThreadIds == 1..(MaxRestarts + 2)

AllTopics == <<"t1", "t2">>

\* What send_to_llm returns: None, or the stripped text (possibly empty).
LlmOutcomes == {"None", ""} \cup scope.llm_texts
\* What send_to_cerebrum returns: None, a well-formed reply with the given
\* response text, or ("bad") a 200 reply whose 'emotions' is not a map of floats.
CerebrumOutcomes == {"None", "bad"} \cup scope.cerebrum_texts

Max(a, b) == IF a >= b THEN a ELSE b
Min(a, b) == IF a <= b THEN a ELSE b

\* Python's  xs[-n:]  for n >= 0 (xs[-0:] is the whole list).
PySliceLast(xs, n) ==
    IF n = 0 THEN xs ELSE SubSeq(xs, Max(1, Len(xs) - n + 1), Len(xs))

\* Python truthiness of what send_to_llm returned.
LlmFailed(r) == r \in {"None", ""}

\* Python truthiness of what send_to_cerebrum returned.
CerebrumFailed(d) == d = "None"

\* A failure the environment injects: counted against MaxFailures.
IsFailure(o) == o \in {"None", "", "bad"}
Allowed(o, isLlm) ==
    \/ ~IsFailure(o)
    \/ (~isLlm /\ o = "")
    \/ env.failures < scope.failures
Charge(o, isLlm) ==
    IF IsFailure(o) /\ ~(~isLlm /\ o = "")
    THEN [env EXCEPT !.failures = @ + 1] ELSE env

(***************************************************************************)
(* TrainingState.__init__                                                  *)
(***************************************************************************)
TrainingState ==
    [ running |-> FALSE,
      exchanges_completed |-> 0,
      current_topic_index |-> 0,
      messages_on_current_topic |-> 0,
      started_at |-> 0,
      conversation_log |-> <<>>,
      current_topic |-> "" ]

NoThread ==
    [ pc |-> "unborn", max_exchanges |-> 0, topic_switch_interval |-> 0,
      conversation_history |-> <<>>, recent_llm_responses |-> <<>>,
      loop_break_attempts |-> 0, llm_response |-> "", cerebrum_response |-> "",
      \* attempts of the Subject call in progress that failed and are retried
      retries |-> 0,
      \* history: calls of save_conversation_log made by the thread
      flushes |-> 0,
      \* history: every output appended to recent_llm_responses, uncapped
      observed |-> <<>>,
      \* history: what the first calls of get_next_topic returned
      topics_returned |-> <<>> ]

\* probes: what the two readiness probes of a Start or a Status returned;
\* limit, body: the limit a Log query carried and the exchanges it returns
\* (for a Status query body is the TrainingStatus document).
NoResp == [op |-> "none", code |-> 0, value |-> 0, probes |-> <<>>,
           limit |-> 0, body |-> <<>>]

Chats == {1, 2}
Names == {"bob", "al"}

\* A message text: the command word and what follows it.
TelegramTexts ==
    [cmd : {"/setname"}, arg : Names \cup {""}]
        \cup [cmd : {"name="}, arg : Names]
        \cup [cmd : {"/help", "/start"}, arg : {""}]

\* messaging_users.db without a row, no message in progress
TelegramBoot ==
    [ users |-> [c \in Chats |-> "None"],   \* name of the chat's row, "None": no row
      stack |-> <<>>,                       \* call stack of the message in progress
      chat |-> 0, text |-> [cmd |-> "", arg |-> ""], full_name |-> "",
      sent |-> "none",                      \* the last reply sent for this message
      raised |-> FALSE ]                    \* a RecursionError is propagating

\* llm_server.py before its port search: start and end are the configured
\* llm_server_port_range, free the ports no other socket holds, port the loop
\* variable of find_free_port, outcome and value what find_free_port did
\* ("running": nothing yet), server how the import of the module ended.
PortSearch(start, end, free) ==
    [ start |-> start, end |-> end, free |-> free, port |-> start,
      outcome |-> "running", value |-> 0, server |-> "import" ]

PortsBoot == PortSearch(1, 1, {1})

\* line 662 start_order, and the services with 'required': True (lines
\* 163-197)
StartOrder == <<"llm_server", "middleware", "telegram", "sms">>
Required == {"llm_server", "middleware"}

\* The launcher when start_all_services begins.  configured: the optional
\* services whose credentials are set; i: the position of the for loop in
\* start_order; running_processes: the keys of the dict, in insertion order;
\* alive: the child processes that have not exited; launched: history, the
\* scripts passed to Popen, in order; stopped, killed: history, the
\* processes cleanup_on_exit terminated and those it had to kill;
\* interrupted: Ctrl+C was pressed; exit_code: -1 while the launcher runs.
Launcher(configured) ==
    [ configured |-> configured, phase |-> "starting", i |-> 1,
      running_processes |-> <<>>, alive |-> {}, launched |-> <<>>,
      cleanups |-> 0, stopped |-> {}, killed |-> {}, interrupted |-> FALSE,
      exit_code |-> -1 ]

LauncherBoot == Launcher({})

PollerIds == 1..MaxPollers

\* src/telegram_server.py lines 60-61: polling_active = False, no polling
\* thread.  pc: where each polling_loop thread is; offset: its local offset
\* (0 for None); status: the 'status' of the last polling answer.
PollingBoot ==
    [ active |-> FALSE,
      pc |-> [t \in PollerIds |-> "unborn"],
      offset |-> [t \in PollerIds |-> 0],
      status |-> "none" ]

\* Everything but config and scope, as the module leaves it after import.
Boot ==
    /\ polling = PollingBoot
    /\ launcher = LauncherBoot
    /\ ports = PortsBoot
    /\ telegram = TelegramBoot
    /\ training_state = TrainingState
    /\ threads = [t \in ThreadIds |-> NoThread]
    /\ req = [op |-> "idle"]
    /\ resp = NoResp
    /\ artifacts = <<>>
    /\ env = [ failures |-> 0,            \* failures injected so far
               write_failed |-> FALSE,    \* a session document could not be written
               stop_called |-> FALSE,     \* Stop accepted since the last accepted Start
               exchange_limit |-> 0 ]     \* max_exchanges of the last accepted Start

\* One Responder text and one Subject text.
Thin(starts, limits, intervals) ==
    [ starts |-> starts, limits |-> limits, intervals |-> intervals,
      failures |-> MaxFailures, llm_texts |-> {"a"}, cerebrum_texts |-> {"x"} ]

DefaultConfig ==
    [ conversation_topics |-> AllTopics,
      max_conversation_history |-> MaxHorizon ]

\* A client that sends the same Start body every time.
Init ==
    /\ Boot
    /\ config = DefaultConfig
    /\ scope \in { Thin(1 + MaxRestarts, {m}, {i}) :
                    m \in 0..MaxExchanges, i \in 0..MaxInterval }

\* The same client, sending the largest exchange limit with either no topic
\* interval or the largest one.
InitFair ==
    /\ Boot
    /\ config = DefaultConfig
    /\ scope \in { Thin(1 + MaxRestarts, {MaxExchanges}, {i}) :
                    i \in {0, MaxInterval} }

\* One more accepted Start, any Start body each time.
InitRace ==
    /\ Boot
    /\ config = DefaultConfig
    /\ scope = Thin(2 + MaxRestarts, 0..MaxExchanges, 0..MaxInterval)

\* One long run of a client that sends Start once: two Responder texts, the
\* exchange limit MaxObserved, no topic switch before the limit.
StallScope ==
    [ starts |-> 1, limits |-> {MaxObserved}, intervals |-> {MaxObserved},
      failures |-> 0, llm_texts |-> {"a", "b"}, cerebrum_texts |-> {"x"} ]

\* conversation_topics of length n
Topics(n) == [k \in 1..n |-> "t" \o ToString(k)]

\* A run that switches topic at every iteration or after every exchange,
\* on a topic list of any length up to MaxTopics (the empty one included).
TopicScope ==
    [ starts |-> 1, limits |-> {MaxTopics + 2}, intervals |-> {0, 1},
      failures |-> MaxFailures, llm_texts |-> {"a"}, cerebrum_texts |-> {"x"} ]

\* A run long enough to overfill the history for every horizon
\* 0..MaxHorizon, without a topic switch.
HorizonScope ==
    [ starts |-> 1, limits |-> {2 * MaxHorizon + 2},
      intervals |-> {2 * MaxHorizon + 2},
      failures |-> 0, llm_texts |-> {"a", "b"}, cerebrum_texts |-> {"x"} ]

\* A short run in which the Subject may answer 200 with an empty reply text.
EmptyReplyScope ==
    [ starts |-> 1, limits |-> {MaxExchanges}, intervals |-> {MaxInterval},
      failures |-> MaxFailures, llm_texts |-> {"a"}, cerebrum_texts |-> {"x", ""} ]

\* A run with one Responder text whose first recovery turn is followed by a
\* topic switch.
RecoveryScope ==
    [ starts |-> 1, limits |-> {StallRun + 2}, intervals |-> {StallRun + 1},
      failures |-> 0, llm_texts |-> {"a"}, cerebrum_texts |-> {"x"} ]

InitData ==
    /\ Boot
    /\ \/ config = DefaultConfig /\ scope = StallScope
       \/ config = DefaultConfig /\ scope = EmptyReplyScope
       \/ config = DefaultConfig /\ scope = RecoveryScope
       \/ /\ config \in { [DefaultConfig EXCEPT !.conversation_topics = Topics(n)] :
                            n \in 0..MaxTopics }
          /\ scope = TopicScope
       \/ /\ config \in { [DefaultConfig EXCEPT !.max_conversation_history = n] :
                            n \in 0..MaxHorizon }
          /\ scope = HorizonScope

Started == {t \in ThreadIds : threads[t].pc # "unborn"}
Alive == {t \in ThreadIds : threads[t].pc \notin {"unborn", "done"}}

(***************************************************************************)
(* POST /api/training/start                                                *)
(***************************************************************************)
\* Mutant: the exclusion check is missing.
AlreadyRunning_NoCheck == FALSE

\* line 726: the exclusion check
AlreadyRunning == training_state.running

\* lines 736-743: the session as "Reset state" leaves it when nothing else
\* writes to it
ResetState(now) ==
    [ running |-> TRUE,
      exchanges_completed |-> 0,
      current_topic_index |-> 0,
      messages_on_current_topic |-> 0,
      started_at |-> now,
      conversation_log |-> <<>>,
      current_topic |-> "" ]

\* lines 746-751: the thread object and its locals (lines 366-393)
NewThread(max_exchanges, topic_switch_interval) ==
    [ NoThread EXCEPT !.pc = "greet_llm",
                      !.max_exchanges = max_exchanges,
                      !.topic_switch_interval = topic_switch_interval ]

\* lines 726-727: reject, or go on to the readiness probes
StartBegin ==
    /\ req.op = "idle"
    \* the client: once scope.starts Starts were accepted it sends another
    \* one only while a session runs or after every loop thread has ended
    /\ \/ training_state.running
       \/ Cardinality(Started) < scope.starts
       \/ Alive = {}
    /\ IF AlreadyRunning
       THEN /\ resp' = [op |-> "start", code |-> 400, value |-> 0, probes |-> <<>>,
                limit |-> 0, body |-> <<>>]
            /\ UNCHANGED req
       ELSE /\ req' = [op |-> "start"]
            /\ resp' = NoResp
    /\ UNCHANGED <<telegram, host_vars, config, training_state, threads, artifacts, env, scope>>

\* lines 730-734: a failed probe rejects the request
StartRejected(probes) ==
    /\ resp' = [op |-> "start", code |-> 503, value |-> 0, probes |-> probes,
                limit |-> 0, body |-> <<>>]
    /\ UNCHANGED <<training_state, threads, env>>

\* Mutant: only the Subject is probed.
ProbesOk_SubjectOnly(cerebrum_ok, llm_ok) == cerebrum_ok

\* lines 730, 733: both probes must answer 200
ProbesOk(cerebrum_ok, llm_ok) == cerebrum_ok /\ llm_ok

\* lines 737-740: the first four assignments of "Reset state"; the request
\* body is kept for the thread that is created at line 746
StartReset(max_exchanges, topic_switch_interval, probes) ==
    /\ training_state' = [training_state EXCEPT
                             !.running = TRUE,
                             !.exchanges_completed = 0,
                             !.current_topic_index = 0,
                             !.messages_on_current_topic = 0]
    /\ req' = [op |-> "reset", max_exchanges |-> max_exchanges,
               topic_switch_interval |-> topic_switch_interval,
               probes |-> probes]
    /\ resp' = NoResp
    /\ env' = [env EXCEPT !.stop_called = FALSE,
                          !.exchange_limit = max_exchanges]
    /\ UNCHANGED threads

\* lines 729-740, after the probes returned
StartFinish ==
    /\ req.op = "start"
    /\ \E cerebrum_ok \in BOOLEAN, llm_ok \in BOOLEAN :
         IF ProbesOk(cerebrum_ok, llm_ok)
         THEN \* the environment lets scope.starts Starts through
              /\ Cardinality(Started) < scope.starts
              /\ \E m \in scope.limits, i \in scope.intervals :
                 StartReset(m, i, <<cerebrum_ok, llm_ok>>)
         ELSE /\ StartRejected(<<cerebrum_ok, llm_ok>>)
              /\ req' = [op |-> "idle"]
    /\ UNCHANGED <<telegram, host_vars, config, artifacts, scope>>

\* lines 741-760: the last three assignments of "Reset state", the thread
\* start and the answer
StartAccepted ==
    /\ req.op = "reset"
    /\ LET t == Cardinality(Started) + 1 IN
       /\ training_state' = [training_state EXCEPT
                                !.started_at = t,
                                !.conversation_log = <<>>,
                                !.current_topic = ""]
       /\ threads' = [threads EXCEPT ![t] =
                        NewThread(req.max_exchanges, req.topic_switch_interval)]
       /\ resp' = [op |-> "start", code |-> 200, value |-> t,
                   probes |-> req.probes, limit |-> 0, body |-> <<>>]
    /\ req' = [op |-> "idle"]
    /\ UNCHANGED <<telegram, host_vars, config, artifacts, env, scope>>

(***************************************************************************)
(* POST /api/training/stop                                                 *)
(***************************************************************************)
\* lines 766-767
StopRejected ==
    /\ resp' = [op |-> "stop", code |-> 400, value |-> 0, probes |-> <<>>,
                limit |-> 0, body |-> <<>>]
    /\ UNCHANGED <<training_state, env>>

\* Mutant: the answer counts the log instead of reading exchanges_completed.
StopAccepted_LogLength ==
    /\ training_state' = [training_state EXCEPT !.running = FALSE]
    /\ resp' = [op |-> "stop", code |-> 200,
                value |-> Len(training_state.conversation_log), probes |-> <<>>,
                limit |-> 0, body |-> <<>>]
    /\ env' = [env EXCEPT !.stop_called = TRUE]

\* lines 769-775: flip the flag, answer with the counter
StopAccepted ==
    /\ training_state' = [training_state EXCEPT !.running = FALSE]
    /\ resp' = [op |-> "stop", code |-> 200,
                value |-> training_state.exchanges_completed, probes |-> <<>>,
                limit |-> 0, body |-> <<>>]
    /\ env' = [env EXCEPT !.stop_called = TRUE]

StopTraining ==
    /\ req.op = "idle"
    /\ IF ~training_state.running THEN StopRejected ELSE StopAccepted
    /\ UNCHANGED <<telegram, host_vars, config, threads, req, artifacts, scope>>

(***************************************************************************)
(* GET /api/training/status, GET /api/training/log                         *)
(***************************************************************************)
\* lines 153-159, 781-788: the TrainingStatus model, filled in
TrainingStatus(cerebrum_ok, llm_ok) ==
    [ running |-> training_state.running,
      exchanges_completed |-> training_state.exchanges_completed,
      current_topic |-> training_state.current_topic,
      started_at |-> training_state.started_at,
      cerebrum_connected |-> cerebrum_ok,
      llm_connected |-> llm_ok ]

\* lines 778-788: the fields read, the two probes, the answer
GetTrainingStatus ==
    /\ req.op = "idle"
    /\ \E cerebrum_ok \in BOOLEAN, llm_ok \in BOOLEAN :
         resp' = [NoResp EXCEPT
                    !.op = "status", !.code = 200,
                    !.body = TrainingStatus(cerebrum_ok, llm_ok)]
    /\ UNCHANGED <<telegram, host_vars, config, training_state, threads, req, artifacts, env, scope>>

\* line 794: log_entries = training_state.conversation_log[-limit:]
LogBegin ==
    /\ req.op = "idle"
    /\ \E limit \in 0..MaxLimit :
         req' = [op |-> "log", limit |-> limit,
                 log_entries |->
                     PySliceLast(training_state.conversation_log, limit)]
    /\ resp' = NoResp
    /\ UNCHANGED <<telegram, host_vars, config, training_state, threads, artifacts, env, scope>>

\* lines 795-799: the log is read again for total_exchanges
LogFinish ==
    /\ req.op = "log"
    /\ resp' = [NoResp EXCEPT
                  !.op = "log", !.code = 200,
                  !.value = Len(training_state.conversation_log),
                  !.limit = req.limit,
                  !.body = req.log_entries]
    /\ req' = [op |-> "idle"]
    /\ UNCHANGED <<telegram, host_vars, config, training_state, threads, artifacts, env, scope>>

(***************************************************************************)
(* training_loop                                                           *)
(***************************************************************************)
Exchange(llm_to_cerebrum, cerebrum_response) ==
    [llm_to_cerebrum |-> llm_to_cerebrum, cerebrum_response |-> cerebrum_response]

Pair(user, assistant) == [user |-> user, assistant |-> assistant]

\* Mutant: every kept output is compared, not the last three.
IsLooping_AllKept(recent) ==
    /\ Len(recent) >= StallRun
    /\ Cardinality({recent[k] : k \in 1..Len(recent)}) = 1

\* lines 465-468: is_looping
IsLooping(recent) ==
    /\ Len(recent) >= StallRun
    /\ Cardinality({recent[k] : k \in (Len(recent) - StallRun + 1)..Len(recent)}) = 1

\* lines 497-499: track the response, keep the last RecentCap
TrackResponse(recent, r) ==
    LET xs == Append(recent, r) IN
    IF Len(xs) > RecentCap THEN Tail(xs) ELSE xs

\* lines 525-532: append the pair, keep history bounded
PushHistory(history, pair) ==
    LET xs == Append(history, pair)
        n == config.max_conversation_history * 2 IN
    IF Len(xs) > n THEN PySliceLast(xs, n) ELSE xs

\* lines 429-432: the greeting's append (no bound applied)
PushGreeting(history, pair) == Append(history, pair)

\* lines 452, 487: the history slice passed to send_to_llm
RecentPairs(history) == PySliceLast(history, config.max_conversation_history)

\* lines 450-454, 474-478, 485-489: the conversation_history argument of the
\* send_to_llm call a thread is about to make
HistoryArg(t) ==
    IF threads[t].pc = "break_llm"
    THEN <<>>
    ELSE RecentPairs(threads[t].conversation_history)

\* Mutant: the while condition does not read the running flag.
LoopCondition_IgnoreRunning(t) ==
    training_state.exchanges_completed < threads[t].max_exchanges

\* line 437: the while condition
LoopCondition(t) ==
    /\ training_state.running
    /\ training_state.exchanges_completed < threads[t].max_exchanges

\* Mutant: the switch waits for the counter to pass the interval.
TopicSwitchDue_Late(t) ==
    training_state.messages_on_current_topic > threads[t].topic_switch_interval

\* line 439: the topic switch condition
TopicSwitchDue(t) ==
    training_state.messages_on_current_topic >= threads[t].topic_switch_interval

\* Mutant: only exchanges_completed is incremented.
CountExchange_OneCounter(ts) ==
    [ts EXCEPT !.exchanges_completed = @ + 1]

\* lines 520-522 and 424-426, the counters
CountExchange(ts) ==
    [ts EXCEPT !.exchanges_completed = @ + 1,
               !.messages_on_current_topic = @ + 1]

\* Mutant: the new exchange is put in front of the log.
LogExchange_Prepend(ts, ex) ==
    [ts EXCEPT !.conversation_log = <<ex>> \o @]

\* lines 424, 520: append to the log
LogExchange(ts, ex) == [ts EXCEPT !.conversation_log = Append(@, ex)]

Goto(t, pc) == threads' = [threads EXCEPT ![t].pc = pc, ![t].retries = 0]

\* lines 113-130, 225-232: http_session.post inside send_to_cerebrum.  An
\* attempt that fails with a status of status_forcelist, a connection error
\* or a timeout is repeated by the session's adapter, up to RetryTotal
\* times, before send_to_cerebrum sees any outcome.
CerebrumRetry(t) ==
    /\ threads[t].pc \in {"greet_cer", "topic_cer", "subject"}
    /\ threads[t].retries < RetryTotal
    /\ env.failures < scope.failures
    /\ env' = [env EXCEPT !.failures = @ + 1]
    /\ threads' = [threads EXCEPT ![t].retries = @ + 1]
    /\ resp' = NoResp
    /\ UNCHANGED <<telegram, host_vars, config, training_state, req, artifacts, scope>>

\* Mutant: a failed greeting returns without reaching the finally clause.
GreetLlm_NoFinally(t) ==
    /\ threads[t].pc = "greet_llm"
    /\ \E r \in LlmOutcomes :
         /\ Allowed(r, TRUE)
         /\ env' = Charge(r, TRUE)
         /\ IF LlmFailed(r)
            THEN /\ training_state' = [training_state EXCEPT !.running = FALSE]
                 /\ threads' = [threads EXCEPT ![t] = [NoThread EXCEPT !.pc = "done"]]
            ELSE /\ threads' = [threads EXCEPT ![t].pc = "greet_cer",
                                               ![t].llm_response = r]
                 /\ UNCHANGED training_state
    /\ resp' = NoResp
    /\ UNCHANGED <<telegram, host_vars, config, req, artifacts, scope>>

\* lines 399-404: the greeting from the Responder
GreetLlm(t) ==
    /\ threads[t].pc = "greet_llm"
    /\ \E r \in LlmOutcomes :
         /\ Allowed(r, TRUE)
         /\ env' = Charge(r, TRUE)
         /\ IF LlmFailed(r)
            THEN /\ training_state' = [training_state EXCEPT !.running = FALSE]
                 /\ Goto(t, "finally")
            ELSE /\ threads' = [threads EXCEPT ![t].pc = "greet_cer",
                                               ![t].llm_response = r]
                 /\ UNCHANGED training_state
    /\ resp' = NoResp
    /\ UNCHANGED <<telegram, host_vars, config, req, artifacts, scope>>

\* lines 407-424: the greeting sent to the Subject, the exchange appended
GreetCerebrum(t) ==
    /\ threads[t].pc = "greet_cer"
    /\ \E d \in CerebrumOutcomes :
         /\ Allowed(d, FALSE)
         /\ env' = Charge(d, FALSE)
         /\ IF CerebrumFailed(d)
            THEN /\ training_state' = [training_state EXCEPT !.running = FALSE]
                 /\ Goto(t, "finally")
            ELSE IF d = "bad"
            THEN \* ConversationExchange(...) raises: except, finally
                 /\ threads' = [threads EXCEPT
                        ![t].pc = "finally",
                        ![t].retries = 0,
                        ![t].cerebrum_response = "x",
                        ![t].recent_llm_responses =
                            Append(@, threads[t].llm_response),
                        ![t].observed = Append(@, threads[t].llm_response)]
                 /\ UNCHANGED training_state
            ELSE /\ threads' = [threads EXCEPT
                        ![t].pc = "greet_count",
                        ![t].retries = 0,
                        ![t].cerebrum_response = d,
                        ![t].recent_llm_responses =
                            Append(@, threads[t].llm_response),
                        ![t].observed = Append(@, threads[t].llm_response)]
                 /\ training_state' =
                        LogExchange(training_state,
                                    Exchange(threads[t].llm_response, d))
    /\ resp' = NoResp
    /\ UNCHANGED <<telegram, host_vars, config, req, artifacts, scope>>

\* lines 425-434: the counters, the history, the sleep
GreetCount(t) ==
    /\ threads[t].pc = "greet_count"
    /\ training_state' = CountExchange(training_state)
    /\ threads' = [threads EXCEPT
           ![t].pc = "loop",
           ![t].conversation_history =
               PushGreeting(@, Pair(threads[t].llm_response,
                                    threads[t].cerebrum_response))]
    /\ resp' = NoResp
    /\ UNCHANGED <<telegram, host_vars, config, req, artifacts, env, scope>>

\* Mutant: the cursor stops at the end of the list.
GetNextTopic_NoWrap(ts) ==
    LET topics == config.conversation_topics IN
    [ts EXCEPT !.current_topic = topics[ts.current_topic_index + 1],
               !.current_topic_index =
                   IF ts.current_topic_index + 1 < Len(topics)
                   THEN ts.current_topic_index + 1 ELSE ts.current_topic_index]

\* The first Len(topics) + 1 topics returned are kept.
Returned(returned, topic) ==
    IF Len(returned) <= Len(config.conversation_topics)
    THEN Append(returned, topic) ELSE returned

\* line 316: topics[current_topic_index] is defined (the index is never
\* negative)
CursorValid(ts) == ts.current_topic_index < Len(config.conversation_topics)

\* Mutant: the cursor advances without the modulo.
GetNextTopic_NoModulo(ts) ==
    LET topics == config.conversation_topics IN
    [ts EXCEPT !.current_topic = topics[ts.current_topic_index + 1],
               !.current_topic_index = ts.current_topic_index + 1]

\* lines 314-318 get_next_topic, where line 316 does not raise
GetNextTopic(ts) ==
    LET topics == config.conversation_topics IN
    [ts EXCEPT !.current_topic = topics[ts.current_topic_index + 1],
               !.current_topic_index = (ts.current_topic_index + 1) % Len(topics)]

\* Mutant: the recovery is issued as long as the stall lasts.
RecoveryDue_NoCap(t) == IsLooping(threads[t].recent_llm_responses)

\* line 470: is_looping and loop_break_attempts < 3
RecoveryDue(t) ==
    /\ IsLooping(threads[t].recent_llm_responses)
    /\ threads[t].loop_break_attempts < MaxLoopBreaks

\* lines 437-446 and 464-482: the loop test and the choice of this turn
LoopTop(t) ==
    /\ threads[t].pc = "loop"
    /\ IF ~LoopCondition(t)
       THEN /\ Goto(t, "finally")
            /\ UNCHANGED training_state
       ELSE IF TopicSwitchDue(t)
       THEN LET ts == [training_state EXCEPT !.messages_on_current_topic = 0] IN
            IF ~CursorValid(ts)
            THEN \* line 316 raises IndexError: except, finally
                 /\ training_state' = ts
                 /\ Goto(t, "finally")
            ELSE /\ training_state' = GetNextTopic(ts)
                 /\ threads' = [threads EXCEPT
                        ![t].pc = "topic_llm",
                        ![t].topics_returned =
                            Returned(@, GetNextTopic(ts).current_topic)]
       ELSE /\ UNCHANGED training_state
            /\ IF RecoveryDue(t)
               THEN threads' = [threads EXCEPT
                        ![t].pc = "break_llm",
                        ![t].loop_break_attempts = @ + 1]
               ELSE threads' = [threads EXCEPT
                        ![t].pc = "normal_llm",
                        ![t].loop_break_attempts = 0]
    /\ resp' = NoResp
    /\ UNCHANGED <<telegram, host_vars, config, req, artifacts, env, scope>>

\* Mutant: the topic introduction is fed to the stall detector.
TopicLlm_Tracked(t) ==
    /\ threads[t].pc = "topic_llm"
    /\ \E r \in LlmOutcomes :
         /\ Allowed(r, TRUE)
         /\ env' = Charge(r, TRUE)
         /\ IF LlmFailed(r)
            THEN Goto(t, "loop")
            ELSE threads' = [threads EXCEPT
                     ![t].pc = "topic_cer",
                     ![t].llm_response = r,
                     ![t].recent_llm_responses = TrackResponse(@, r)]
    /\ resp' = NoResp
    /\ UNCHANGED <<telegram, host_vars, config, training_state, req, artifacts, scope>>

\* lines 450-459: the topic introduction from the Responder
TopicLlm(t) ==
    /\ threads[t].pc = "topic_llm"
    /\ \E r \in LlmOutcomes :
         /\ Allowed(r, TRUE)
         /\ env' = Charge(r, TRUE)
         /\ IF LlmFailed(r)
            THEN Goto(t, "loop")
            ELSE threads' = [threads EXCEPT ![t].pc = "topic_cer",
                                            ![t].llm_response = r]
    /\ resp' = NoResp
    /\ UNCHANGED <<telegram, host_vars, config, training_state, req, artifacts, scope>>

\* lines 461-462, 535-541: the topic introduction sent to the Subject
TopicCerebrum(t) ==
    /\ threads[t].pc = "topic_cer"
    /\ \E d \in CerebrumOutcomes :
         /\ Allowed(d, FALSE)
         /\ env' = Charge(d, FALSE)
         /\ threads' = [threads EXCEPT
                ![t].pc = "loop",
                ![t].retries = 0,
                ![t].cerebrum_response =
                    IF CerebrumFailed(d) THEN "" ELSE IF d = "bad" THEN "x" ELSE d]
    /\ resp' = NoResp
    /\ UNCHANGED <<telegram, host_vars, config, training_state, req, artifacts, scope>>

\* lines 476-501: the Responder's turn (recovery or normal instruction)
RespondLlm(t) ==
    /\ threads[t].pc \in {"break_llm", "normal_llm"}
    /\ \E r \in LlmOutcomes :
         /\ Allowed(r, TRUE)
         /\ env' = Charge(r, TRUE)
         /\ IF LlmFailed(r)
            THEN Goto(t, "loop")
            ELSE threads' = [threads EXCEPT
                     ![t].pc = "subject",
                     ![t].llm_response = r,
                     ![t].recent_llm_responses = TrackResponse(@, r),
                     ![t].observed = Append(@, r)]
    /\ resp' = NoResp
    /\ UNCHANGED <<telegram, host_vars, config, training_state, req, artifacts, scope>>

\* lines 504-520: the Subject's turn, the exchange appended
SubjectCall(t) ==
    /\ threads[t].pc = "subject"
    /\ \E d \in CerebrumOutcomes :
         /\ Allowed(d, FALSE)
         /\ env' = Charge(d, FALSE)
         /\ IF CerebrumFailed(d)
            THEN /\ Goto(t, "loop")
                 /\ UNCHANGED training_state
            ELSE IF d = "bad"
            THEN /\ threads' = [threads EXCEPT ![t].pc = "finally",
                                               ![t].retries = 0,
                                               ![t].cerebrum_response = "x"]
                 /\ UNCHANGED training_state
            ELSE /\ threads' = [threads EXCEPT ![t].pc = "count",
                                               ![t].retries = 0,
                                               ![t].cerebrum_response = d]
                 /\ training_state' =
                        LogExchange(training_state,
                                    Exchange(threads[t].llm_response, d))
    /\ resp' = NoResp
    /\ UNCHANGED <<telegram, host_vars, config, req, artifacts, scope>>

\* lines 521-541: the counters, the history, the sleep
Count(t) ==
    /\ threads[t].pc = "count"
    /\ training_state' = CountExchange(training_state)
    /\ threads' = [threads EXCEPT
           ![t].pc = "loop",
           ![t].conversation_history =
               PushHistory(@, Pair(threads[t].llm_response,
                                   threads[t].cerebrum_response))]
    /\ resp' = NoResp
    /\ UNCHANGED <<telegram, host_vars, config, req, artifacts, env, scope>>

\* lines 545-546: finally
Finally(t) ==
    /\ threads[t].pc = "finally"
    /\ training_state' = [training_state EXCEPT !.running = FALSE]
    /\ Goto(t, "save")
    /\ resp' = NoResp
    /\ UNCHANGED <<telegram, host_vars, config, req, artifacts, env, scope>>

\* lines 330-331: session_<%Y%m%d_%H%M%S>.json, the second of the call, which
\* is the second of the previous write or a later one
FileNames ==
    IF artifacts = <<>> THEN {1}
    ELSE {artifacts[Len(artifacts)].file, artifacts[Len(artifacts)].file + 1}

\* lines 334-343: the document written, and the file it is written to
SessionDocument(file, ts) ==
    [ file |-> file,
      started_at |-> ts.started_at,
      exchanges_completed |-> ts.exchanges_completed,
      conversation |-> ts.conversation_log ]

\* lines 321-347 save_conversation_log, called at line 547
SaveConversationLog(t) ==
    /\ threads[t].pc = "save"
    /\ threads' = [threads EXCEPT ![t] =
                     [NoThread EXCEPT !.pc = "done",
                                      !.flushes = threads[t].flushes + 1]]
    /\ IF training_state.conversation_log = <<>>
       THEN UNCHANGED <<artifacts, env>>
       ELSE \/ /\ \E file \in FileNames :
                    artifacts' =
                        Append(artifacts, SessionDocument(file, training_state))
               /\ UNCHANGED env
            \/ \* open() or json.dump raises; logged
               /\ env.failures < scope.failures
               /\ env' = [env EXCEPT !.failures = @ + 1, !.write_failed = TRUE]
               /\ UNCHANGED artifacts
    /\ resp' = NoResp
    /\ UNCHANGED <<telegram, host_vars, config, training_state, req, scope>>

LoopStep(t) ==
    \/ GreetLlm(t) \/ GreetCerebrum(t) \/ GreetCount(t)
    \/ CerebrumRetry(t)
    \/ LoopTop(t)
    \/ TopicLlm(t) \/ TopicCerebrum(t)
    \/ RespondLlm(t) \/ SubjectCall(t) \/ Count(t)
    \/ Finally(t) \/ SaveConversationLog(t)

Next ==
    \/ StartBegin
    \/ StartFinish
    \/ StartAccepted
    \/ StopTraining
    \/ \E t \in ThreadIds : LoopStep(t)

Spec == Init /\ [][Next]_vars

SpecRace == InitRace /\ [][Next]_vars

\* A started thread keeps running (it is a daemon thread of a live process)
\* and a handler that began returns.
Fairness ==
    /\ \A t \in ThreadIds : WF_vars(LoopStep(t))
    /\ WF_vars(StartFinish)
    /\ WF_vars(StartAccepted)

FairSpec == InitFair /\ [][Next]_vars /\ Fairness

SpecData == InitData /\ [][Next]_vars

(***************************************************************************)
(* src/telegram_server.py: one incoming message at a time                  *)
(***************************************************************************)
\* text.startswith('/')
StartsWithSlash(text) == text.cmd \in {"/setname", "/help", "/start"}

\* TelegramService.parse_name_command: "name=<name>" or "/setname <name>"
ParseNameCommand(text) ==
    IF text.cmd \in {"name=", "/setname"} /\ text.arg # ""
    THEN text.arg ELSE "None"

\* TelegramService.is_name_command
IsNameCommand(text) == ParseNameCommand(text) # "None"

Top == telegram.stack[Len(telegram.stack)]
Pop == SubSeq(telegram.stack, 1, Len(telegram.stack) - 1)
\* The running frame waits, the callee is entered.
Call(waiting, callee) ==
    Append([telegram.stack EXCEPT ![Len(telegram.stack)] = waiting], callee)

\* polling_loop / telegram_webhook hand a message to process_telegram_message
TelegramReceive ==
    /\ telegram.stack = <<>>
    /\ \E chat \in Chats, text \in TelegramTexts, full_name \in {"", "al"} :
         telegram' = [telegram EXCEPT
                        !.stack = <<"process">>, !.chat = chat, !.text = text,
                        !.full_name = full_name, !.sent = "none",
                        !.raised = FALSE]
    /\ UNCHANGED <<bridge_vars, host_vars>>

\* process_telegram_message, lines 202-250, for a command or a name command
ProcessTelegramMessage ==
    /\ telegram.stack # <<>> /\ Top = "process"
    /\ IF StartsWithSlash(telegram.text)
       THEN IF Len(telegram.stack) < RecursionLimit
            THEN telegram' = [telegram EXCEPT
                                !.stack = Call("process_wait", "command")]
            ELSE \* RecursionError inside the try: the error reply, return
                 telegram' = [telegram EXCEPT !.stack = Pop, !.sent = "error"]
       ELSE /\ IsNameCommand(telegram.text)
            /\ telegram' = [telegram EXCEPT
                   !.users[telegram.chat] = ParseNameCommand(telegram.text),
                   !.sent = IF telegram.users[telegram.chat] # "None"
                            THEN "name_updated" ELSE "name_registered",
                   !.stack = Pop]
    /\ UNCHANGED <<bridge_vars, host_vars>>

\* process_telegram_message after handle_command came back: return, or the
\* except clause of lines 296-306
ProcessReturn ==
    /\ telegram.stack # <<>> /\ Top = "process_wait"
    /\ telegram' = [telegram EXCEPT
                      !.stack = Pop,
                      !.sent = IF telegram.raised THEN "error" ELSE @,
                      !.raised = FALSE]
    /\ UNCHANGED <<bridge_vars, host_vars>>

\* handle_command, lines 309-348
HandleCommand ==
    /\ telegram.stack # <<>> /\ Top = "command"
    /\ IF telegram.text.cmd = "/start"
       THEN IF telegram.users[telegram.chat] = "None" /\ telegram.full_name # ""
            THEN telegram' = [telegram EXCEPT
                                !.users[telegram.chat] = telegram.full_name,
                                !.sent = "name_registered", !.stack = Pop]
            ELSE telegram' = [telegram EXCEPT !.sent = "welcome", !.stack = Pop]
       ELSE IF telegram.text.cmd = "/help"
       THEN telegram' = [telegram EXCEPT !.sent = "help", !.stack = Pop]
       ELSE \* command_lower.startswith('/setname')
            IF Len(telegram.stack) < RecursionLimit
            THEN telegram' = [telegram EXCEPT
                                !.stack = Call("command_wait", "process")]
            ELSE \* RecursionError leaves handle_command
                 telegram' = [telegram EXCEPT !.stack = Pop, !.raised = TRUE]
    /\ UNCHANGED <<bridge_vars, host_vars>>

\* handle_command after process_telegram_message came back
CommandReturn ==
    /\ telegram.stack # <<>> /\ Top = "command_wait"
    /\ telegram' = [telegram EXCEPT !.stack = Pop]
    /\ UNCHANGED <<bridge_vars, host_vars>>

NextTelegram ==
    \/ TelegramReceive
    \/ ProcessTelegramMessage
    \/ ProcessReturn
    \/ HandleCommand
    \/ CommandReturn

InitTelegram ==
    /\ Boot
    /\ config = DefaultConfig
    /\ scope = Thin(1, {MaxExchanges}, {MaxInterval})

SpecTelegram == InitTelegram /\ [][NextTelegram]_vars

(***************************************************************************)
(* src/port_utils.py and the import of src/llm_server.py                   *)
(***************************************************************************)
\* socket.bind takes a port in 0..65535 (here 0..PortMax) and raises
\* OverflowError, which is not an OSError, for any other integer
PortValid(port) == port \in 0..PortMax

\* lines 20-26 is_port_available, for a port bind() accepts: binding port 0
\* lets the system pick a port and succeeds
IsPortAvailable(port) == port = 0 \/ port \in ports.free

\* line 41: range(start_port, end_port + 1) is used up
PortsExhausted == ports.port > ports.end

\* lines 41-45 find_free_port, one turn of the for loop
FindFreePort ==
    /\ ports.outcome = "running"
    /\ ports' =
         IF PortsExhausted
         THEN [ports EXCEPT !.outcome = "None"]
         ELSE IF ~PortValid(ports.port)
         THEN [ports EXCEPT !.outcome = "OverflowError"]
         ELSE IF IsPortAvailable(ports.port)
         THEN [ports EXCEPT !.outcome = "returned", !.value = ports.port]
         ELSE [ports EXCEPT !.port = @ + 1]
    /\ UNCHANGED <<bridge_vars, telegram, launcher, polling>>

\* src/llm_server.py lines 55-64: the module raises RuntimeError on None (an
\* exception of find_free_port ends the import as well), or stores the port
\* in config.json
LlmServerImport ==
    /\ ports.outcome # "running"
    /\ ports.server = "import"
    /\ ports' = [ports EXCEPT !.server =
                    IF ports.outcome = "returned" THEN "configured"
                    ELSE IF ports.outcome = "None" THEN "RuntimeError"
                    ELSE ports.outcome]
    /\ UNCHANGED <<bridge_vars, telegram, launcher, polling>>

NextPorts == FindFreePort \/ LlmServerImport

\* Any range with bounds from one below the smallest to one above the largest
\* port number, any set of busy ports.
InitPorts ==
    /\ telegram = TelegramBoot
    /\ training_state = TrainingState
    /\ threads = [t \in ThreadIds |-> NoThread]
    /\ req = [op |-> "idle"]
    /\ resp = NoResp
    /\ artifacts = <<>>
    /\ env = [failures |-> 0, write_failed |-> FALSE, stop_called |-> FALSE,
              exchange_limit |-> 0]
    /\ config = DefaultConfig
    /\ scope = Thin(1, {MaxExchanges}, {MaxInterval})
    /\ polling = PollingBoot
    /\ launcher = LauncherBoot
    /\ ports \in { PortSearch(start, end, free) :
                     start \in -1..(PortMax + 1), end \in -1..(PortMax + 1),
                     free \in SUBSET (1..PortMax) }

SpecPorts == InitPorts /\ [][NextPorts]_vars

(***************************************************************************)
(* src/start_llm_trainer.py                                                *)
(***************************************************************************)
Range(xs) == {xs[k] : k \in 1..Len(xs)}

Tracked == Range(launcher.running_processes)

\* Mutant: the processes are left running.
CleanupOnExit_NoStop(l, killed) == [l EXCEPT !.cleanups = @ + 1]

\* lines 870-948 cleanup_on_exit: every tracked process that has not exited
\* is terminated and waited for; those in killed do not exit within the
\* timeout and are killed (lines 910-911)
CleanupOnExit(l, killed) ==
    [l EXCEPT !.alive = @ \ Range(l.running_processes),
              !.cleanups = @ + 1,
              !.stopped = Range(l.running_processes) \cap l.alive,
              !.killed = killed]

\* cleanup_on_exit() followed by sys.exit(code), or by the return of main
ExitWith(l, code) ==
    \E killed \in SUBSET (Range(l.running_processes) \cap l.alive) :
        launcher' = [CleanupOnExit(l, killed) EXCEPT !.phase = "exited",
                                                     !.exit_code = code]

\* the for loop of lines 664-725 moves on; after the last service main goes
\* on to monitor_services
Advance(l) ==
    [l EXCEPT !.i = @ + 1,
              !.phase = IF l.i = Len(StartOrder) THEN "monitoring" ELSE "starting"]

\* lines 664-725 start_all_services, one service of start_order.
\* port_free: what check_port_availability returns; up: start_service
\* returns the process (it has not exited during the startup delay; a
\* failed health check only prints a warning, lines 610-631).
StartAllServices ==
    /\ launcher.phase = "starting"
    /\ LET service_name == StartOrder[launcher.i] IN
       \E port_free \in BOOLEAN, up \in BOOLEAN :
         IF service_name \notin Required /\ service_name \notin launcher.configured
         THEN \* lines 668-683: not configured
              launcher' = Advance(launcher)
         ELSE IF ~port_free
         THEN \* lines 687-695
              IF service_name \in Required
              THEN ExitWith(launcher, 1)
              ELSE launcher' = Advance(launcher)
         ELSE LET l == [launcher EXCEPT !.launched = Append(@, service_name)] IN
              IF up
              THEN \* lines 699-700
                   launcher' = Advance([l EXCEPT
                       !.running_processes = Append(@, service_name),
                       !.alive = @ \cup {service_name}])
              ELSE IF service_name \in Required
              THEN \* lines 722-725
                   ExitWith(l, 1)
              ELSE launcher' = Advance(l)
    /\ UNCHANGED <<bridge_vars, telegram, ports, polling>>

\* a child process exits on its own
ProcessExit ==
    /\ launcher.phase # "exited"
    /\ \E service_name \in launcher.alive :
         launcher' = [launcher EXCEPT !.alive = @ \ {service_name}]
    /\ UNCHANGED <<bridge_vars, telegram, ports, polling>>

\* Mutant: an exited required service is dropped like an optional one.
RequiredExited_Never(l) == FALSE

\* lines 824-846: the for loop meets a required service whose process has
\* exited (the required services come first in the dict)
RequiredExited(l) == \E s \in Range(l.running_processes) \ l.alive : s \in Required

\* lines 814-861 monitor_services, one turn of the while loop
MonitorServices ==
    /\ launcher.phase = "monitoring"
    /\ Tracked \ launcher.alive # {}
    /\ IF RequiredExited(launcher)
       THEN \* lines 839-846
            ExitWith(launcher, 1)
       ELSE \* lines 847-852, then 855-861 and main's lines 997-999
            LET l == [launcher EXCEPT !.running_processes =
                         SelectSeq(@, LAMBDA s : s \in launcher.alive)] IN
            IF l.running_processes = <<>>
            THEN ExitWith(l, 0)
            ELSE launcher' = l
    /\ UNCHANGED <<bridge_vars, telegram, ports, polling>>

\* lines 863-868 and main's lines 997-999: Ctrl+C ends the monitor loop
KeyboardInterrupt ==
    /\ launcher.phase = "monitoring"
    /\ ExitWith([launcher EXCEPT !.interrupted = TRUE], 0)
    /\ UNCHANGED <<bridge_vars, telegram, ports, polling>>

NextLauncher ==
    \/ StartAllServices
    \/ ProcessExit
    \/ MonitorServices
    \/ KeyboardInterrupt

\* Any set of configured optional services.
InitLauncher ==
    /\ telegram = TelegramBoot
    /\ training_state = TrainingState
    /\ threads = [t \in ThreadIds |-> NoThread]
    /\ req = [op |-> "idle"]
    /\ resp = NoResp
    /\ artifacts = <<>>
    /\ env = [failures |-> 0, write_failed |-> FALSE, stop_called |-> FALSE,
              exchange_limit |-> 0]
    /\ config = DefaultConfig
    /\ scope = Thin(1, {MaxExchanges}, {MaxInterval})
    /\ polling = PollingBoot
    /\ ports = PortsBoot
    /\ launcher \in { Launcher(configured) :
                        configured \in SUBSET (Range(StartOrder) \ Required) }

SpecLauncher == InitLauncher /\ [][NextLauncher]_vars

(***************************************************************************)
(* src/telegram_server.py: polling mode (telegram_service is initialized)  *)
(***************************************************************************)
PollersAlive == {t \in PollerIds : polling.pc[t] \in {"check", "get_updates"}}
PollersUnborn == {t \in PollerIds : polling.pc[t] = "unborn"}

\* lines 508-526 start_polling
StartPolling ==
    \* the client sends a start that would be accepted only while a thread
    \* can still be created
    /\ polling.active \/ PollersUnborn # {}
    /\ IF polling.active
       THEN polling' = [polling EXCEPT !.status = "already_running"]
       ELSE LET t == CHOOSE u \in PollersUnborn : \A v \in PollersUnborn : u <= v IN
            polling' = [polling EXCEPT !.active = TRUE,
                                       !.pc[t] = "check",
                                       !.status = "started"]
    /\ UNCHANGED <<bridge_vars, telegram, ports, launcher>>

\* lines 529-538 stop_polling
StopPolling ==
    /\ IF ~polling.active
       THEN polling' = [polling EXCEPT !.status = "not_running"]
       ELSE polling' = [polling EXCEPT !.active = FALSE, !.status = "stopped"]
    /\ UNCHANGED <<bridge_vars, telegram, ports, launcher>>

\* line 546: while polling_active; line 571 when it is false
PollingCheck(t) ==
    /\ polling.pc[t] = "check"
    /\ polling' = [polling EXCEPT !.pc[t] =
                      IF polling.active THEN "get_updates" ELSE "done"]
    /\ UNCHANGED <<bridge_vars, telegram, ports, launcher>>

\* lines 547-569: get_updates returns after at most its timeout, with no
\* update, with one (the offset moves past it), or with an exception that
\* is logged; the loop goes back to its test
PollingGetUpdates(t) ==
    /\ polling.pc[t] = "get_updates"
    /\ \E n \in {0, 1} :
         /\ polling.offset[t] + n <= MaxUpdates
         /\ polling' = [polling EXCEPT !.pc[t] = "check", !.offset[t] = @ + n]
    /\ UNCHANGED <<bridge_vars, telegram, ports, launcher>>

PollingLoop(t) == PollingCheck(t) \/ PollingGetUpdates(t)

NextPolling ==
    \/ StartPolling
    \/ StopPolling
    \/ \E t \in PollerIds : PollingLoop(t)

InitPolling ==
    /\ Boot
    /\ config = DefaultConfig
    /\ scope = Thin(1, {MaxExchanges}, {MaxInterval})

SpecPolling == InitPolling /\ [][NextPolling]_vars

\* The queries read the state and change none of it; they are left out of
\* the specifications above and added here.
NextQuery ==
    \/ Next
    \/ GetTrainingStatus
    \/ LogBegin
    \/ LogFinish

SpecQuery == InitFair /\ [][NextQuery]_vars

TypeOK ==
    /\ training_state.running \in BOOLEAN
    /\ training_state.exchanges_completed \in Nat
    /\ env.failures \in 0..scope.failures
    /\ \A t \in ThreadIds : Len(threads[t].recent_llm_responses) <= RecentCap

(***************************************************************************)
(* Properties                                                              *)
(***************************************************************************)
\* A thread inside training_loop's try block (greeting or while loop).
InLoop(t) == threads[t].pc \notin {"unborn", "finally", "save", "done"}

\* The documents written for the current session.
SessionArtifacts ==
    {k \in 1..Len(artifacts) :
        artifacts[k].started_at = training_state.started_at}

SessionFields ==
    <<training_state.exchanges_completed, training_state.current_topic_index,
      training_state.messages_on_current_topic, training_state.current_topic,
      training_state.conversation_log>>

\* A step of the Start handler's entry, of the Stop handler.
IsStartRequest == req.op = "idle" /\ (resp'.op = "start" \/ req'.op = "start")
IsStopRequest == req.op = "idle" /\ resp'.op = "stop"

\* C1: at most one training_loop thread executes against the Session, in
\* every reachable state and under any interleaving of Start, Stop and loop
\* steps.
C1_AtMostOneLoop == Cardinality({t \in ThreadIds : InLoop(t)}) <= 1

\* C2: a Start issued while running is true is answered 400 and changes
\* nothing: no thread is started and no field of the Session changes.
C2_StartWhileRunningRejected ==
    [][ (training_state.running /\ IsStartRequest) =>
            /\ resp'.code = 400
            /\ UNCHANGED <<training_state, threads, req, artifacts>> ]_vars

\* C2 witness: a Start was just answered 400 while a run with a recorded
\* exchange is in progress.
C2_Witness ==
    /\ resp.op = "start" /\ resp.code = 400
    /\ training_state.running
    /\ training_state.exchanges_completed >= 1

\* C3: exchanges_completed <= the exchange limit of the last accepted Start,
\* in every reachable state.
C3_CompletedWithinLimit ==
    training_state.exchanges_completed <= env.exchange_limit

\* C4: when a run has reached exchanges_completed = its limit, no Stop was
\* called on it and every loop thread has ended, running is false and exactly
\* one document was written for the session, holding exactly
\* exchanges_completed exchanges.  (Runs in which the environment failed are
\* left out, so that a failed disk write does not count against the claim.)
C4_OneArtifactAtCap ==
    ( /\ training_state.started_at # 0
      /\ Alive = {}
      /\ ~env.stop_called
      /\ env.failures = 0
      /\ training_state.exchanges_completed = env.exchange_limit )
    => /\ ~training_state.running
       /\ Cardinality(SessionArtifacts) = 1
       /\ \A k \in SessionArtifacts :
             /\ Len(artifacts[k].conversation) = artifacts[k].exchanges_completed
             /\ artifacts[k].exchanges_completed = training_state.exchanges_completed

\* Every loop thread has ended and running is false.
Quiesced == Alive = {} /\ ~training_state.running

\* C5 (as stated): after Stop is accepted, once the loop has exited running
\* is false and a document was written for the session.  (The final-state
\* form of the claim; runs with a failed disk write are left out.)
C5_StopProducesArtifact ==
    (env.stop_called /\ Alive = {} /\ ~env.write_failed)
    => (~training_state.running /\ SessionArtifacts # {})

\* C5 (amended): after Stop is accepted on a running session, under fair
\* scheduling of the loop threads, either a later Start is accepted or every
\* loop thread eventually exits with running false, and a document was
\* written for the session if it recorded at least one exchange and the
\* write did not fail.
C5_StopQuiesces ==
    env.stop_called ~>
        ( \/ ~env.stop_called
          \/ /\ Quiesced
             /\ (training_state.conversation_log # <<>> /\ ~env.write_failed)
                    => SessionArtifacts # {} )

\* C5 witness: Stop was accepted, the loop has exited below the limit and the
\* document is there.
C5_Witness ==
    /\ env.stop_called
    /\ Quiesced
    /\ SessionArtifacts # {}
    /\ training_state.exchanges_completed < env.exchange_limit

\* C6: when both agents always answer and Stop is never called, the run ends
\* with running false and the log holding exactly exchange_limit exchanges
\* (the final-state form of the claim).
C6_RunEndsAtLimit ==
    ( /\ training_state.started_at # 0
      /\ Alive = {}
      /\ ~env.stop_called
      /\ env.failures = 0 )
    => /\ ~training_state.running
       /\ Len(training_state.conversation_log) = env.exchange_limit

\* C7: a Start with a failed readiness probe is answered 503, starts no
\* thread and changes no field of the Session.
C7_ProbeFailureRejected ==
    [][ ( /\ req.op \in {"start", "reset"}
          /\ resp'.op = "start"
          /\ resp'.probes # <<TRUE, TRUE>> ) =>
            /\ resp'.code = 503
            /\ UNCHANGED <<training_state, threads, artifacts>> ]_vars

\* C7 witness: a Start was just answered 503 with the Subject reachable and
\* the Responder not, after an earlier run left its state behind.
C7_Witness ==
    /\ resp.op = "start" /\ resp.code = 503
    /\ resp.probes = <<TRUE, FALSE>>
    /\ training_state.exchanges_completed >= 1

\* C8: Stop while running is false is answered 400 and changes no field of
\* the Session; Stop while running is true sets running to false, changes
\* nothing else and answers with the current exchanges_completed.
C8_StopContract ==
    [][ IsStopRequest =>
            IF ~training_state.running
            THEN resp'.code = 400 /\ UNCHANGED training_state
            ELSE /\ resp'.code = 200
                 /\ resp'.value = training_state.exchanges_completed
                 /\ training_state' = [training_state EXCEPT !.running = FALSE] ]_vars

\* C8 witness: Stop was just accepted between the append of an exchange and
\* the increment of the counter.
C8_Witness ==
    /\ resp.op = "stop" /\ resp.code = 200
    /\ Len(training_state.conversation_log) > training_state.exchanges_completed

\* C9: running goes from true to false only by a Stop or with
\* exchanges_completed at the exchange limit.
C9_RunEndsOnlyByStopOrCap ==
    [][ (training_state.running /\ ~training_state'.running) =>
            \/ IsStopRequest
            \/ training_state.exchanges_completed >= env.exchange_limit ]_vars

\* C10: once Stop has set running to false, no step that leaves it false
\* changes exchanges_completed, messages_on_current_topic, the topic cursor,
\* current_topic or the log.
C10_NoMutationAfterStop ==
    [][ (env.stop_called /\ ~training_state.running /\ ~training_state'.running)
            => UNCHANGED SessionFields ]_vars

\* The last StallRun outputs of xs, as a set.
LastOutputs(xs) == {xs[k] : k \in (Len(xs) - StallRun + 1)..Len(xs)}

\* C11: the stall check computed from recent_llm_responses is true exactly
\* when at least 3 Responder outputs were observed in the run and the last 3
\* observed outputs are the same string.
C11_StallCheck ==
    \A t \in ThreadIds :
        IsLooping(threads[t].recent_llm_responses)
            <=> ( /\ Len(threads[t].observed) >= StallRun
                  /\ Cardinality(LastOutputs(threads[t].observed)) = 1 )

\* C11 witness: more outputs were observed than recent_llm_responses keeps,
\* both texts among them, and the check is true at the top of the loop.
C11_Witness ==
    \E t \in ThreadIds :
        /\ threads[t].pc = "loop"
        /\ Len(threads[t].observed) > RecentCap
        /\ {threads[t].observed[k] : k \in 1..Len(threads[t].observed)} = {"a", "b"}
        /\ IsLooping(threads[t].recent_llm_responses)

\* C12: in a run of one loop thread on a non-empty topic list of length L,
\* the k-th call of get_next_topic after the reset returns the k-th topic of
\* the list for k <= L, and call L+1 returns what call 1 returned.
C12_RoundRobin ==
    \A t \in ThreadIds :
        LET r == threads[t].topics_returned
            topics == config.conversation_topics IN
        \A k \in 1..Len(r) :
            /\ k <= Len(topics) => r[k] = topics[k]
            /\ k = Len(topics) + 1 => r[k] = r[1]

\* C12 witness: get_next_topic was called MaxTopics + 1 times on a list of
\* MaxTopics topics.
C12_Witness ==
    \E t \in ThreadIds :
        /\ Len(config.conversation_topics) = MaxTopics
        /\ Len(threads[t].topics_returned) = MaxTopics + 1

\* C13: for every configured horizon N, 0 included, conversation_history
\* holds at most 2*N pairs after every push (a thread back at the top of the
\* loop has just pushed, or skipped the turn).
C13_WindowBounded ==
    \A t \in ThreadIds :
        threads[t].pc = "loop" =>
            Len(threads[t].conversation_history)
                <= 2 * config.max_conversation_history

\* The n most recent elements of xs, in order.
MostRecent(xs, n) == SubSeq(xs, Len(xs) - n + 1, Len(xs))

\* C14: a Log query with limit >= 0 on a log of length L takes exactly the
\* most recent min(limit, L) exchanges, in creation order, and its answer
\* reports the length of the log as total_exchanges.
C14_LogQuery ==
    [][ /\ (req.op = "idle" /\ req'.op = "log") =>
              req'.log_entries =
                  MostRecent(training_state.conversation_log,
                             Min(req'.limit, Len(training_state.conversation_log)))
        /\ (req.op = "log" /\ resp'.op = "log") =>
              /\ resp'.body = req.log_entries
              /\ resp'.value = Len(training_state.conversation_log) ]_vars

\* C19: while a session runs, a query finds as many exchanges in the log as
\* exchanges_completed says, and a Log answer that returns fewer exchanges
\* than its limit allows returns the whole log it counted.
C19_QueriesSynchronized ==
    /\ (training_state.running /\ req.op = "idle") =>
          Len(training_state.conversation_log) = training_state.exchanges_completed
    /\ (resp.op = "log" /\ Len(resp.body) < resp.limit) =>
          resp.value = Len(resp.body)

\* C15: no loop thread runs with an empty topic list or with an exchange
\* limit that is not positive: Start rejects such a configuration.
C15_ConfigCheckedAtStart ==
    \A t \in Alive :
        /\ threads[t].max_exchanges > 0
        /\ config.conversation_topics # <<>>

\* C16: a Subject call of the loop makes one HTTP attempt: no attempt that
\* failed is followed by another attempt of the same call.
C16_NoSubjectRetry ==
    \A t \in ThreadIds : threads[t].retries = 0

\* C17: no exchange in the log carries an empty Responder text or an empty
\* Subject reply: a turn with an empty reply is skipped.
C17_EmptyReplySkipped ==
    \A k \in 1..Len(training_state.conversation_log) :
        /\ training_state.conversation_log[k].llm_to_cerebrum # ""
        /\ training_state.conversation_log[k].cerebrum_response # ""

\* C18: when an accepted Start resets the Session, the log it discards is
\* empty or is the conversation of a document already written for that
\* session.
C18_DiscardAfterFlush ==
    [][ training_state'.started_at # training_state.started_at =>
            \/ training_state.conversation_log = <<>>
            \/ \E k \in SessionArtifacts :
                  artifacts[k].conversation = training_state.conversation_log ]_vars

\* C20: when the handling of a message "/setname <name>" with a non-empty
\* name ends, the stored name of the chat's user is that name.
C20_SetNameSetsName ==
    [][ ( /\ telegram.stack # <<>> /\ telegram'.stack = <<>>
          /\ telegram.text.cmd = "/setname" /\ telegram.text.arg # "" )
        => telegram'.users[telegram.chat] = telegram.text.arg ]_vars

\* A thread at one of these positions has an agent call in flight.
CallPcs ==
    {"greet_llm", "greet_cer", "topic_llm", "topic_cer",
     "break_llm", "normal_llm", "subject"}

\* C21: once Stop has set running to false, no loop thread starts another
\* agent call: a step taken while running is false never moves a started
\* thread to a position where a call is in flight.
C21_NoCallAfterStop ==
    [][ (env.stop_called /\ ~training_state.running) =>
            \A t \in Started :
                threads'[t].pc \in CallPcs => threads'[t].pc = threads[t].pc ]_vars

\* C22: loop_break_attempts stays in 0..3; the recovery instruction is
\* issued only when fewer than 3 recoveries were issued in a row, and the
\* non-topic-switch iteration that follows 3 recoveries in a row issues the
\* normal instruction and resets the counter to 0, stalled or not.
C22_RecoveryCapped ==
    [][ \A t \in ThreadIds :
          /\ threads'[t].loop_break_attempts \in 0..3
          /\ (threads[t].pc = "loop" /\ threads'[t].pc = "break_llm") =>
                threads[t].loop_break_attempts < 3
          /\ ( /\ threads[t].pc = "loop"
               /\ threads'[t].pc \in {"break_llm", "normal_llm"}
               /\ threads[t].loop_break_attempts = 3 ) =>
                /\ threads'[t].pc = "normal_llm"
                /\ threads'[t].loop_break_attempts = 0 ]_vars

\* C22 witness: the normal instruction is being issued with the counter back
\* at 0 although the last 3 outputs are still identical.
C22_Witness ==
    \E t \in ThreadIds :
        /\ threads[t].pc = "normal_llm"
        /\ threads[t].loop_break_attempts = 0
        /\ IsLooping(threads[t].recent_llm_responses)

\* C23: a topic-switch iteration whose Responder and Subject calls succeed
\* has reset messages_on_current_topic, advanced the cursor by one, and
\* records an exchange for the turn when the Subject's reply arrives.
C23_TopicSwitchRecorded ==
    [][ \A t \in ThreadIds :
          /\ (threads[t].pc = "loop" /\ threads'[t].pc = "topic_llm") =>
                /\ training_state'.messages_on_current_topic = 0
                /\ training_state'.current_topic_index =
                       (training_state.current_topic_index + 1)
                           % Len(config.conversation_topics)
          /\ ( /\ threads[t].pc = "topic_cer" /\ threads'[t].pc = "loop"
               /\ env'.failures = env.failures ) =>
                Len(training_state'.conversation_log) =
                    Len(training_state.conversation_log) + 1 ]_vars

\* C24: a topic-switch iteration issues neither the recovery nor the normal
\* instruction, and none of its steps changes loop_break_attempts or
\* recent_llm_responses.
C24_TopicSwitchFrame ==
    [][ \A t \in ThreadIds :
          /\ (threads[t].pc = "loop" /\ LoopCondition(t) /\ TopicSwitchDue(t)) =>
                threads'[t].pc \notin {"break_llm", "normal_llm"}
          /\ ( \/ threads[t].pc = "loop" /\ threads'[t].pc = "topic_llm"
               \/ threads[t].pc \in {"topic_llm", "topic_cer"} ) =>
                /\ threads'[t].loop_break_attempts = threads[t].loop_break_attempts
                /\ threads'[t].recent_llm_responses =
                       threads[t].recent_llm_responses ]_vars

\* C24 witness: a topic-switch iteration has come back to the top of the
\* loop while a stall is detected and a recovery has been counted.
C24_Witness ==
    \E t \in ThreadIds :
        /\ threads[t].pc = "loop"
        /\ threads[t].topics_returned # <<>>
        /\ threads[t].loop_break_attempts >= 1
        /\ IsLooping(threads[t].recent_llm_responses)

\* C25: when the Subject call of a normal or recovery iteration ends in a
\* failure (no reply, an empty reply text or a malformed reply), the log,
\* the history, exchanges_completed, messages_on_current_topic and running
\* are unchanged and the thread is back at the top of the loop.
C25_SubjectFailureSkipped ==
    [][ \A t \in ThreadIds :
          ( /\ threads[t].pc = "subject" /\ threads'[t].pc # "subject"
            /\ \/ env'.failures > env.failures
               \/ threads'[t].cerebrum_response = "" ) =>
              /\ threads'[t].pc = "loop"
              /\ UNCHANGED training_state
              /\ threads'[t].conversation_history =
                     threads[t].conversation_history ]_vars

\* C26: with a single loop thread, a normal iteration whose Responder and
\* Subject calls succeed appends exactly one exchange, the one just made, to
\* the log when the reply arrives, then increases exchanges_completed and
\* messages_on_current_topic by exactly 1 each and pushes exactly that pair
\* into the history.
C26_OneExchangePerIteration ==
    [][ \A t \in ThreadIds :
          Cardinality(Alive) = 1 =>
            /\ (threads[t].pc = "subject" /\ threads'[t].pc = "count") =>
                  /\ training_state' =
                        [training_state EXCEPT !.conversation_log =
                            Append(@, Exchange(threads[t].llm_response,
                                               threads'[t].cerebrum_response))]
            /\ (threads[t].pc = "count" /\ threads'[t].pc = "loop") =>
                  /\ training_state'.exchanges_completed =
                        training_state.exchanges_completed + 1
                  /\ training_state'.messages_on_current_topic =
                        training_state.messages_on_current_topic + 1
                  /\ training_state'.conversation_log =
                        training_state.conversation_log
                  /\ LET h == threads'[t].conversation_history IN
                     /\ h # <<>>
                     /\ h[Len(h)] = Pair(threads[t].llm_response,
                                         threads[t].cerebrum_response)
                     /\ \/ Len(h) = Len(threads[t].conversation_history) + 1
                        \/ Len(h) = 2 * config.max_conversation_history ]_vars

\* C26 witness: the second normal iteration of a run has just been counted.
C26_Witness ==
    \E t \in ThreadIds :
        /\ threads[t].pc = "loop"
        /\ training_state.running
        /\ training_state.exchanges_completed = 3
        /\ Len(training_state.conversation_log) = 3
        /\ threads[t].topics_returned = <<>>

\* C27: a thread that leaves the try block enters the finally clause; when
\* it leaves the finally clause running is false and save_conversation_log
\* is called; a thread that has ended has called it exactly once and a
\* thread that has not ended has not called it.
C27_FlushOncePerRun ==
    [][ \A t \in ThreadIds :
          /\ (InLoop(t) /\ threads'[t].pc # threads[t].pc
                /\ threads'[t].pc \notin
                      {"greet_cer", "greet_count", "loop", "topic_llm",
                       "topic_cer", "break_llm", "normal_llm", "subject",
                       "count"}) =>
                threads'[t].pc = "finally"
          /\ (threads[t].pc = "finally" /\ threads'[t].pc # "finally") =>
                /\ ~training_state'.running
                /\ threads'[t].pc = "save"
          /\ threads'[t].flushes = IF threads'[t].pc = "done" THEN 1 ELSE 0 ]_vars

\* C27 witness: a run ended by a failed greeting has called the flush once.
C27_Witness ==
    \E t \in ThreadIds :
        /\ threads[t].pc = "done" /\ threads[t].flushes = 1
        /\ ~training_state.running
        /\ training_state.started_at # 0
        /\ training_state.conversation_log = <<>>
        /\ ~env.stop_called

\* C28: a flush on an empty log writes nothing; a flush on a non-empty log
\* whose write succeeds writes one document, to a file that no earlier
\* write of the process went to.
C28_FlushWritesNewArtifact ==
    [][ \A t \in ThreadIds :
          ( /\ threads[t].pc = "save" /\ threads'[t].pc = "done"
            /\ env'.failures = env.failures ) =>
              IF training_state.conversation_log = <<>>
              THEN artifacts' = artifacts
              ELSE /\ Len(artifacts') = Len(artifacts) + 1
                   /\ SubSeq(artifacts', 1, Len(artifacts)) = artifacts
                   /\ \A k \in 1..Len(artifacts) :
                         artifacts[k].file # artifacts'[Len(artifacts')].file ]_vars

\* What a Status answer says about the session and the two agents.
SessionStatusFields ==
    {"running", "exchanges_completed", "current_topic", "started_at",
     "cerebrum_connected", "llm_connected"}

\* C29: after a failed write of the session document, every Status answer
\* carries something about the failure: a field besides the ones that
\* describe the session and the reachability of the two agents.
C29_FlushFailureSurfaced ==
    (resp.op = "status" /\ env.write_failed) =>
        DOMAIN resp.body \ SessionStatusFields # {}

\* C30: the step that answers an accepted Start leaves every field of the
\* Session reset (running true, both counters and the topic cursor 0, the
\* topic empty, the log empty, started_at set) and a new loop thread whose
\* history and recent-response window are empty, whatever the previous run
\* left behind.
C30_StartResetsSession ==
    [][ (req.op = "reset" /\ resp'.op = "start" /\ resp'.code = 200) =>
            /\ training_state'.started_at # 0
            /\ training_state' = ResetState(training_state'.started_at)
            /\ threads'[resp'.value].conversation_history = <<>>
            /\ threads'[resp'.value].recent_llm_responses = <<>> ]_vars

\* C31: with a non-empty topic list the topic cursor is a valid index of the
\* list before and after every step, and a loop thread that is due for a
\* topic switch gets its topic: get_next_topic does not raise.
C31_CursorInRange ==
    [][ config.conversation_topics # <<>> =>
          /\ CursorValid(training_state)
          /\ CursorValid(training_state')
          /\ \A t \in ThreadIds :
                ( /\ threads[t].pc = "loop" /\ threads'[t].pc # "loop"
                  /\ LoopCondition(t) /\ TopicSwitchDue(t) ) =>
                    /\ threads'[t].pc = "topic_llm"
                    /\ training_state'.current_topic \in
                          {config.conversation_topics[k] :
                             k \in 1..Len(config.conversation_topics)} ]_vars

\* C31 witness: on a list of MaxTopics topics the cursor is back at 0 after
\* MaxTopics calls of get_next_topic, the last of which was just made.
C31_Witness ==
    /\ Len(config.conversation_topics) = MaxTopics
    /\ training_state.current_topic_index = 0
    /\ \E t \in ThreadIds :
          /\ threads[t].pc = "topic_llm"
          /\ Len(threads[t].topics_returned) = MaxTopics

\* C32: for every configured horizon N (0 included) a thread about to send
\* a normal or a topic-switch instruction passes at most N pairs, the most
\* recent ones of its history in their order; a thread about to send the
\* recovery instruction passes an empty history.
C32_HistoryArgBounded ==
    \A t \in ThreadIds :
        LET history == threads[t].conversation_history
            arg == HistoryArg(t) IN
        /\ threads[t].pc \in {"normal_llm", "topic_llm"} =>
              /\ Len(arg) <= config.max_conversation_history
              /\ Len(arg) <= Len(history)
              /\ arg = MostRecent(history, Len(arg))
        /\ threads[t].pc = "break_llm" => arg = <<>>

\* C33: every step other than the one that completes an accepted Start
\* leaves the log it found as a prefix of the log it leaves: exchanges are
\* only added at the end, and none is changed, moved or removed.
C33_LogAppendOnly ==
    [][ ~(req.op = "reset" /\ resp'.op = "start") =>
          LET log == training_state.conversation_log
              log1 == training_state'.conversation_log IN
          /\ Len(log) <= Len(log1)
          /\ SubSeq(log1, 1, Len(log)) = log ]_vars

\* C33 witness: a log of at least three exchanges, not all alike.
C33_Witness ==
    LET log == training_state.conversation_log IN
    /\ Len(log) >= 3
    /\ \E i, j \in 1..Len(log) : i < j /\ log[i] # log[j]

\* The ports of the configured range that can be bound.
AvailableInRange ==
    {p \in ports.start..ports.end : PortValid(p) /\ IsPortAvailable(p)}

\* C34: once find_free_port is over it has returned the lowest port of
\* [start, end] that can be bound, or None if there is none (an empty range
\* included); and once the import of llm_server.py is over, the server is
\* configured with that port, or has raised RuntimeError if there is none.
C34_LowestFreePort ==
    /\ ports.outcome # "running" =>
          IF AvailableInRange = {}
          THEN ports.outcome = "None"
          ELSE /\ ports.outcome = "returned"
               /\ ports.value \in AvailableInRange
               /\ \A p \in AvailableInRange : ports.value <= p
    /\ ports.server # "import" =>
          IF AvailableInRange = {}
          THEN ports.server = "RuntimeError"
          ELSE ports.server = "configured"

\* A live loop thread of a run after which another Start was accepted.
Superseded(t) ==
    /\ t \in Alive
    /\ \E u \in Started : u > t

\* C35: a step of a loop thread that belongs to a superseded run does not
\* set running to false, appends nothing to the log and writes no session
\* document.
C35_OldLoopLeavesNewRun ==
    [][ \A t \in ThreadIds :
          (Superseded(t) /\ threads'[t] # threads[t]) =>
              /\ training_state.running => training_state'.running
              /\ training_state'.conversation_log = training_state.conversation_log
              /\ artifacts' = artifacts ]_vars

\* C36: for a loop thread started with topic_switch_interval >= 1 and
\* running alone, no step takes messages_on_current_topic above the
\* interval or raises it by more than 1, and the thread's next pass through
\* the top of the loop that finds it at or above the interval sets it to 0.
C36_TopicCounterBounded ==
    [][ \A t \in ThreadIds :
          LET interval == threads[t].topic_switch_interval
              m == training_state.messages_on_current_topic
              m1 == training_state'.messages_on_current_topic IN
          (Alive = {t} /\ interval >= 1) =>
              /\ m <= interval
              /\ m1 <= interval
              /\ m1 <= m + 1
              /\ ( /\ threads[t].pc = "loop" /\ threads'[t].pc # "loop"
                   /\ LoopCondition(t)
                   /\ m >= interval ) => m1 = 0 ]_vars

\* C36 witness: a thread with an interval of at least 2 has just reset the
\* counter at the top of the loop, after as many exchanges as the interval.
C36_Witness ==
    \E t \in ThreadIds :
        /\ Alive = {t}
        /\ threads[t].pc = "topic_llm"
        /\ threads[t].topic_switch_interval >= 2
        /\ training_state.messages_on_current_topic = 0
        /\ training_state.exchanges_completed >= threads[t].topic_switch_interval

\* A step of the monitor loop that acts on an exited process.
IsMonitorTurn ==
    /\ launcher.phase = "monitoring"
    /\ ~launcher'.interrupted
    /\ \/ launcher'.cleanups # launcher.cleanups
       \/ launcher'.running_processes # launcher.running_processes

C39_OnePollingLoop ==
    [][ /\ ( /\ polling'.status = "already_running"
              /\ polling'.status # polling.status ) =>
              /\ polling.active
              /\ polling' = [polling EXCEPT !.status = "already_running"]
        /\ Cardinality(PollersAlive) <= 1
        /\ Cardinality({t \in PollerIds :
                          polling'.pc[t] \in {"check", "get_updates"}}) <= 1 ]_vars

====
